---- MODULE Spec2Model ----
(***************************************************************************)
(* The study-session state machine of the flashcard application: the two   *)
(* React hooks that hold a session (useFlashcardState, used by             *)
(* FlashcardsScreen, and useFlashcards, the persistent variant) together    *)
(* with the pure helpers of flashcardUtils they call.                      *)
(*                                                                         *)
(* React semantics used throughout: a handler closes over the values of    *)
(* the render that created it (the record "rendered") and updates the      *)
(* latest state through functional updaters (prev => ...).  After a        *)
(* handler returns, React re-renders and runs the effects whose            *)
(* dependencies changed.  In Spec every event (a handler call, the         *)
(* continuation of an await, a timer) is followed by that commit before    *)
(* the next event is handled.                                              *)
(*                                                                         *)
(* SpecScreen adds FlashcardsScreen with the card view it renders: taps    *)
(* and pans arrive at FlashCard or at useFlashcardGestures, the swipe      *)
(* callbacks of the screen start the 200 ms transition timer, and time     *)
(* advances in steps of Tick milliseconds; a timer runs when it is due.    *)
(*                                                                         *)
(* SpecPersist is useFlashcards with autoSave on over a storage adapter    *)
(* whose calls may fail: the debounced saveProgress counts down in steps   *)
(* of SaveTick milliseconds, and the component may unmount while awaits    *)
(* and the timer are pending.                                              *)
(*                                                                         *)
(* SpecLastCard is SpecScreen on decks of one or two cards with the clock  *)
(* and the due timers weakly fair.  SpecBatched lets several handlers of   *)
(* useFlashcardState run between two renders.  SpecAdvance is useFlashcards*)
(* under repeated nextCard with its awaits weakly fair, and SpecStats is   *)
(* useFlashcards over a storage that an earlier session has written.       *)
(* SpecThrottle is the useThrottle hook on a clock of ThrottleTick         *)
(* milliseconds, and SpecTheme is ThemeProvider with its Appearance        *)
(* listener.                                                               *)
(***************************************************************************)
EXTENDS Integers, Sequences, FiniteSets, TLC

\* Largest deck (cards.length) explored.
MaxLen == 3
\* Most answers marked in one session.
MaxAnswers == 1
\* Most completeSession calls in flight at once.
MaxTasks == 1
\* Most completions recorded in the stored statistics.
MaxCompleted == 1
\* Milliseconds by which the clock of SpecScreen advances in one step.
Tick == 50
\* Dimensions.get('window').width of the device.
ScreenWidth == 360

\* FlashcardsScreen: the swipe callbacks' cooldown and the delay of the
\* transition timer they start, in milliseconds.
SWIPE_COOLDOWN == 300
SWIPE_TRANSITION_DELAY == 200
\* FlashCard: velocityThreshold of handlePanGestureStateChange.
velocityThreshold == 500
\* useFlashcardGestures: ENHANCED_GESTURE_CONFIG and the delay of the
\* reset-to-centre timer.
SWIPE_VELOCITY_THRESHOLD == 300
RAPID_GESTURE_COOLDOWN == 150
RESET_DELAY == 300
\* useFlashcards: the delay of the debounced saveProgress.
SAVE_DEBOUNCE == 1000

\* The clock of the persistence specification advances by SaveTick
\* milliseconds; a burst of index changes is counted up to MaxBurst.
SaveTick == 500
MaxBurst == 2

\* The most calls of a handler made before the hook renders again.
MaxBatch == 3

\* useThrottle is explored with the delay its test passes, on a clock that
\* advances by ThrottleTick milliseconds, with MaxArg different arguments.
THROTTLE_DELAY == 100
ThrottleTick == 20
MaxArg == 3

\* The decks of the last-card specification have up to LastCardMaxLen cards.
LastCardMaxLen == 2

\* The statistics specification lets StatsMaxTasks completeSession calls run
\* at once and counts the completions of a deck up to StatsMaxCompleted.
StatsMaxTasks == 2
StatsMaxCompleted == 3

VARIABLES
    hook,         \* which hook holds the session
    len,          \* cards.length of the deck
    state,        \* FlashcardState: currentCardIndex, isFlipped, isComplete, progress
    rendered,     \* the values of the last committed render, closed over by the callbacks
    session,      \* useFlashcards: the FlashcardSession counters
    studyMode,    \* useFlashcards: userPreferences.studyMode
    isLoading,    \* useFlashcards: loadInitialData has not finished
    loadPc,       \* useFlashcards: the await loadInitialData is suspended at
    autoSave,     \* useFlashcards: the autoSave prop
    storage,      \* the key-value storage: preferences, progress, statistics, completed decks
    saveTimer,    \* useFlashcards: the pending debounced saveProgress, with what it captured
    tasks,        \* useFlashcards: the completeSession calls in flight
    prefsPending, \* useFlashcards: updatePreferences suspended at saveUserPreferences
    resetPending, \* useFlashcards: resetDeck suspended at resetDeckProgress
    lastOp,       \* observation: the last event handled and its argument
    advances,     \* observation: the nextCard calls so far, while nothing else was called
    mounted,      \* the component holding the session is mounted
    view,         \* FlashcardsScreen: the card view that receives the gestures
    isAnimating,  \* FlashcardsScreen: the isAnimating state
    lastSwipeAge, \* FlashcardsScreen: Date.now() - lastSwipeTime.current, up to SWIPE_COOLDOWN
    swipeTimer,   \* FlashcardsScreen: the pending transition timer, its action and delay left
    phase,        \* the pan gesture handler: idle or dragging
    translateX,   \* the card's translation: centre, dragged or offscreen
    isAnimatingValue, \* useFlashcardGestures: isAnimating.value
    lastGestureAge,   \* useFlashcardGestures: Date.now() - lastGestureTime.value, capped
    resetTimers,  \* useFlashcardGestures: the delays left of the pending reset-to-centre timers
    sinceTap,     \* observation: time since the last tap, up to RAPID_GESTURE_COOLDOWN
    sinceTransition, \* observation: time since the last swipe transition, up to SWIPE_COOLDOWN
    lastEvent,    \* observation: the last event of the screen and its gesture data
    saveDelay,    \* useFlashcards: the time left of the pending debounced saveProgress
    faulty,       \* the storage adapter is one whose calls can fail
    failure,      \* observation: the storage call that failed in the last event, if any
    change,       \* observation: time since the last index change (up to SAVE_DEBOUNCE)
                  \* and how many changes followed each other by less than that
    dragStart,    \* observation: whether onStart took the drag in progress
                  \* ("taken") or returned at its cooldown test ("dropped")
    calls,        \* the handler calls made since the last render
    caps,         \* the bounds in force on tasks and on the stored timesCompleted
    completion,   \* observation: the statistics stored when the session last
                  \* reached the end of the deck (at the mount, before that),
                  \* and the onComplete calls since
    throttle,     \* useThrottle: Date.now() - lastCall.current (up to the delay),
                  \* the pending timer, and the last event and run of the callback
    themeCtx      \* ThemeProvider: its state, the system colour scheme, the
                  \* saved theme, and what the Appearance listener closed over

staticVars == <<hook, len, autoSave, faulty, caps, throttle, themeCtx>>
hookVars == <<staticVars, calls>>
persistVars == <<storage, saveTimer, tasks, prefsPending, resetPending,
                 saveDelay, failure, change, completion>>
flashcardsVars == <<session, studyMode, isLoading, loadPc>>
screenVars == <<mounted, view, isAnimating, lastSwipeAge, swipeTimer, phase,
                translateX, isAnimatingValue, lastGestureAge, resetTimers,
                sinceTap, sinceTransition, lastEvent, dragStart>>
vars == <<hook, len, state, rendered, session, studyMode, isLoading, loadPc,
          autoSave, storage, saveTimer, tasks, prefsPending, resetPending, lastOp,
          advances, mounted, view, isAnimating, lastSwipeAge, swipeTimer, phase,
          translateX, isAnimatingValue, lastGestureAge, resetTimers, sinceTap,
          sinceTransition, lastEvent, saveDelay, faulty, failure, change,
          dragStart, calls, caps, completion, throttle, themeCtx>>

UseFlashcardState == "useFlashcardState"
UseFlashcards == "useFlashcards"

\* progress is a JavaScript number; it is kept exact as the fraction num/den.
Frac(n, d) == [num |-> n, den |-> d]
FracEq(a, b) == a.num * b.den = b.num * a.den
FracLeq(a, b) == a.num * b.den <= b.num * a.den

\* Math.round of the non-negative fraction n/d: floor(n/d + 1/2).
MathRound(n, d) == (2 * n + d) \div (2 * d)

\* lastOp names the calls of flipCard, nextCard, previousCard, goToCard (with
\* its argument) and resetDeck; every other event is Other.
Op(name, arg) == [op |-> name, arg |-> arg]
NoArg == 0 - (MaxLen + 2)
Other == "other"

\* advances counts the nextCard calls made since the mount as long as nothing
\* else was called and no stored progress moved the index; after that, and
\* past MaxLen + 1 calls, it is Untracked.
Untracked == 0 - 1
AdvancesAfter(name) ==
    IF name = "nextCard" /\ advances \in 0 .. MaxLen THEN advances + 1 ELSE Untracked

StudyModes == {"sequential", "random", "spaced"}

\* The values a render of the hook exposes to the callbacks and effects it creates.
RenderOf(st, loading, mode) ==
    [currentCardIndex |-> st.currentCardIndex, isComplete |-> st.isComplete,
     isLoading |-> loading, studyMode |-> mode]

InitialState == [currentCardIndex |-> 0, isFlipped |-> FALSE,
                 isComplete |-> FALSE, progress |-> Frac(0, 1)]

InitialSession == [totalAnswers |-> 0, correctAnswers |-> 0]

\* An absent value (null, no timer, nothing stored) and a present one.
None == <<>>
Some(x) == <<x>>
The(m) == m[1]

----------------------------------------------------------------------------
(* useFlashcardState *)

\* The progress effect: (index / length) * 100, unrounded.
S_progressOf(idx) == IF len > 0 THEN Frac(idx * 100, len) ELSE Frac(0, 1)

\* The two effects of one commit, applied to the state the handler left.  The
\* progress effect depends on the index; the completion effect also depends on
\* onComplete, and sets isComplete whenever it runs at or past the end.
S_Effects(st, r) ==
    LET afterProgress ==
            IF st.currentCardIndex # r.currentCardIndex
            THEN [st EXCEPT !.progress = S_progressOf(st.currentCardIndex)]
            ELSE st
    IN  IF st.currentCardIndex >= len /\ len > 0
        THEN [afterProgress EXCEPT !.isComplete = TRUE]
        ELSE afterProgress

S_flipCardUpd(st) == [st EXCEPT !.isFlipped = ~st.isFlipped]

\* Mutant: nextCard without its end-of-deck branch.
S_nextCardUpd_NoEnd(st, r) ==
    [st EXCEPT !.currentCardIndex = st.currentCardIndex + 1, !.isFlipped = FALSE]

S_nextCardUpd(st, r) ==
    IF r.currentCardIndex < len - 1
    THEN [st EXCEPT !.currentCardIndex = st.currentCardIndex + 1,
                    !.isFlipped = FALSE]
    ELSE [st EXCEPT !.currentCardIndex = len,
                    !.isFlipped = FALSE,
                    !.isComplete = TRUE]

\* Mutant: previousCard that forgets to clear isComplete.
S_previousCardUpd_KeepsComplete(st, r) ==
    IF r.currentCardIndex > 0
    THEN [st EXCEPT !.currentCardIndex = st.currentCardIndex - 1,
                    !.isFlipped = FALSE]
    ELSE st

S_previousCardUpd(st, r) ==
    IF r.currentCardIndex > 0
    THEN [st EXCEPT !.currentCardIndex = st.currentCardIndex - 1,
                    !.isFlipped = FALSE,
                    !.isComplete = FALSE]
    ELSE st

\* Mutant: goToCard with an off-by-one upper bound.
S_goToCardUpd_OffByOne(st, index) ==
    IF index >= 0 /\ index <= len
    THEN [st EXCEPT !.currentCardIndex = index,
                    !.isFlipped = FALSE,
                    !.isComplete = FALSE]
    ELSE st

S_goToCardUpd(st, index) ==
    IF index >= 0 /\ index < len
    THEN [st EXCEPT !.currentCardIndex = index,
                    !.isFlipped = FALSE,
                    !.isComplete = FALSE]
    ELSE st

\* Mutant: resetDeck that keeps the card face.
S_resetDeckUpd_KeepsFlip == [InitialState EXCEPT !.isFlipped = state.isFlipped]

S_resetDeckUpd == InitialState

\* One event of useFlashcardState: the handler, then the commit.
S_Event(st, name, arg) ==
    /\ hook = UseFlashcardState
    /\ state' = S_Effects(st, rendered)
    /\ rendered' = RenderOf(state', isLoading, studyMode)
    /\ lastOp' = Op(name, arg)
    /\ advances' = AdvancesAfter(name)
    /\ UNCHANGED <<hookVars, flashcardsVars, persistVars>>

S_flipCard ==
    /\ S_Event(S_flipCardUpd(state), "flipCard", NoArg)
    /\ UNCHANGED screenVars

S_nextCard ==
    /\ S_Event(S_nextCardUpd(state, rendered), "nextCard", NoArg)
    /\ UNCHANGED screenVars

S_previousCard ==
    /\ S_Event(S_previousCardUpd(state, rendered), "previousCard", NoArg)
    /\ UNCHANGED screenVars

S_goToCard == \E index \in -1 .. MaxLen :
    /\ S_Event(S_goToCardUpd(state, index), "goToCard", index)
    /\ UNCHANGED screenVars

S_resetDeck ==
    /\ S_Event(S_resetDeckUpd, "resetDeck", NoArg)
    /\ UNCHANGED screenVars

\* useFlashcardState when several handler calls are made before the hook
\* renders again (calls in one batch): every call runs the callback of the
\* last render, whose test reads rendered, and its updater is applied to the
\* latest state; the effects run at the render that follows.
B_Call(st, name) ==
    /\ hook = UseFlashcardState
    /\ calls < MaxBatch
    /\ calls' = calls + 1
    /\ state' = st
    /\ lastOp' = Op(name, NoArg)
    /\ advances' = AdvancesAfter(name)
    /\ UNCHANGED <<rendered, staticVars, flashcardsVars, persistVars, screenVars>>

B_flipCard ==
    /\ mounted
    /\ B_Call(S_flipCardUpd(state), "flipCard")

B_nextCard ==
    /\ mounted
    /\ B_Call(S_nextCardUpd(state, rendered), "nextCard")

B_previousCard ==
    /\ mounted
    /\ B_Call(S_previousCardUpd(state, rendered), "previousCard")

\* The render that ends the batch, with its effects.
B_render ==
    /\ hook = UseFlashcardState
    /\ calls > 0
    /\ calls' = 0
    /\ state' = S_Effects(state, rendered)
    /\ rendered' = RenderOf(state', isLoading, studyMode)
    /\ lastOp' = Op(Other, NoArg)
    /\ UNCHANGED <<advances, staticVars, flashcardsVars, persistVars, screenVars>>

----------------------------------------------------------------------------
(* flashcardUtils *)

\* Mutant: calculateProgress with Math.floor for Math.round.
calculateProgress_Floor(currentIndex, totalCards) ==
    IF totalCards = 0 THEN 0 ELSE (currentIndex * 100) \div totalCards

calculateProgress(currentIndex, totalCards) ==
    IF totalCards = 0 THEN 0 ELSE MathRound(currentIndex * 100, totalCards)

calculateScore(correctAnswers, totalAnswers) ==
    IF totalAnswers = 0 THEN 0 ELSE MathRound(correctAnswers * 100, totalAnswers)

\* getNextCardIndex returns null (NullIndex) or an index; in random mode any
\* index Math.random can produce, so the operator is the set of its results.
NullIndex == -1

getNextCardIndex(currentIndex, totalCards, mode) ==
    IF mode = "random"
    THEN IF totalCards <= 1
         THEN {NullIndex}
         ELSE (0 .. totalCards - 1) \ {currentIndex}
    ELSE IF currentIndex < totalCards - 1
         THEN {currentIndex + 1}
         ELSE {NullIndex}

----------------------------------------------------------------------------
(* useFlashcards *)

\* What the auto-save effect captures for its debounced saveProgress.
ProgressOf(st, sess) ==
    [currentCardIndex |-> st.currentCardIndex,
     correctAnswers |-> sess.correctAnswers,
     totalAnswers |-> sess.totalAnswers]

\* The statistics completeSession writes, merged with the stored ones.
MergedStatistics(existing, score) ==
    IF existing = None
    THEN [timesCompleted |-> 1, averageScore |-> score]
    ELSE [timesCompleted |-> The(existing).timesCompleted + 1,
          averageScore |->
              MathRound(The(existing).averageScore * The(existing).timesCompleted + score,
                        The(existing).timesCompleted + 1)]

\* The storage adapter's outcomes: ok, or a rejected call.
Outcomes == IF faulty THEN BOOLEAN ELSE {TRUE}

\* Mutant: loadProgress answering a failure with a progress at index 1.
loadProgress_Default(ok) ==
    IF ok
    THEN storage.progress
    ELSE Some([currentCardIndex |-> 1, correctAnswers |-> 0, totalAnswers |-> 0])

\* flashcardUtils.loadProgress and loadDeckStatistics: the stored value, or
\* null when the storage call fails.
loadProgress(ok) == IF ok THEN storage.progress ELSE None
loadDeckStatistics(ok) == IF ok THEN storage.statistics ELSE None

\* flashcardUtils.saveProgress, saveDeckStatistics and markDeckCompleted: the
\* storage after the call; a failure is logged and leaves it as it was.
Stored(ok, after) == IF ok THEN after ELSE storage
Failed(ok, name) == IF ok THEN None ELSE Some(name)

\* Mutant: the auto-save effect with state.currentCardIndex missing from its
\* dependencies.
AutoSaveRuns_NoIndex(idxChanged, sessChanged, loadingChanged) ==
    loadingChanged

\* The auto-save effect runs again when one of its dependencies changed.
AutoSaveRuns(idxChanged, sessChanged, loadingChanged) ==
    idxChanged \/ sessChanged \/ loadingChanged

\* Mutant: an effect cleanup that leaves the timer running.
clearTimeout_Forgotten(timer) == timer

\* clearTimeout in the cleanup of the auto-save effect.
clearTimeout(timer) == None

\* The observation of the index changes after one more change, and after
\* step milliseconds.
ChangeAfterChange ==
    [age |-> 0,
     count |-> IF change.age < SAVE_DEBOUNCE /\ change.count > 0
               THEN IF change.count < MaxBurst THEN change.count + 1 ELSE MaxBurst
               ELSE 1]
ChangeAfter(step) ==
    [change EXCEPT !.age = IF @ + step >= SAVE_DEBOUNCE THEN SAVE_DEBOUNCE
                           ELSE @ + step]

\* The commit after an event of useFlashcards that left state st, session
\* sess, isLoading loading and study mode mode; sessChanged: setSession was
\* called (every call builds a new session object).  Runs the auto-save, the
\* progress and the completion effect when their dependencies changed.  Once
\* the component is unmounted its setState calls are dropped and nothing is
\* committed.
F_Commit(st0, sess0, sessChanged0, loading0, mode0, ts) ==
    LET st == IF mounted THEN st0 ELSE state
        sess == IF mounted THEN sess0 ELSE session
        sessChanged == mounted /\ sessChanged0
        loading == IF mounted THEN loading0 ELSE isLoading
        mode == IF mounted THEN mode0 ELSE studyMode
        idxChanged == st.currentCardIndex # rendered.currentCardIndex
        saveRuns == AutoSaveRuns(idxChanged, sessChanged,
                                 loading # rendered.isLoading)
        completionRuns == idxChanged \/ sessChanged
                          \/ st.isComplete # rendered.isComplete
        launches == /\ completionRuns
                    /\ st.currentCardIndex >= len
                    /\ len > 0
                    /\ ~st.isComplete
    IN  /\ state' = IF idxChanged
                    THEN [st EXCEPT !.progress =
                              Frac(calculateProgress(st.currentCardIndex, len), 1)]
                    ELSE st
        /\ session' = sess
        /\ isLoading' = loading
        /\ studyMode' = mode
        /\ rendered' = RenderOf(state', loading, mode)
        /\ saveTimer' = IF saveRuns
                        THEN IF autoSave /\ ~loading
                             THEN Some(ProgressOf(st, sess))
                             ELSE clearTimeout(saveTimer)
                        ELSE saveTimer
        /\ saveDelay' = IF saveTimer' = None THEN 0
                        ELSE IF saveRuns THEN SAVE_DEBOUNCE ELSE saveDelay
        /\ change' = IF idxChanged THEN ChangeAfterChange ELSE change
        /\ completion' =
               IF idxChanged /\ st.currentCardIndex >= len /\ len > 0
               THEN [before |-> storage.statistics, calls |-> 0]
               ELSE IF Len(ts) < Len(tasks)
                    THEN [completion EXCEPT !.calls = @ + 1]
                    ELSE completion
        /\ launches => Len(ts) < caps.tasks
        /\ tasks' = IF launches
                    THEN Append(ts, [pc |-> "loadDeckStatistics",
                                     score |-> calculateScore(sess.correctAnswers,
                                                              sess.totalAnswers),
                                     statistics |-> None])
                    ELSE ts

\* A call of one of the hook's actions.
F_Event(name, arg) ==
    /\ hook = UseFlashcards
    /\ mounted
    /\ lastOp' = Op(name, arg)
    /\ advances' = AdvancesAfter(name)
    /\ failure' = None
    /\ UNCHANGED <<hookVars, screenVars>>

\* The continuation of an await, or a timer, named name in lastOp; failed is
\* the storage call that failed in it, if any.
F_After(name, failed) ==
    /\ hook = UseFlashcards
    /\ lastOp' = Op(name, NoArg)
    /\ advances' = IF state'.currentCardIndex = state.currentCardIndex
                   THEN advances
                   ELSE Untracked
    /\ failure' = failed
    /\ UNCHANGED <<hookVars, screenVars>>

F_Async == F_After(Other, None)

F_flipCard ==
    /\ F_Event("flipCard", NoArg)
    /\ F_Commit([state EXCEPT !.isFlipped = ~state.isFlipped],
                session, TRUE, isLoading, studyMode, tasks)
    /\ UNCHANGED <<loadPc, storage, prefsPending, resetPending>>

F_nextCardUpd(st, nextIndex) ==
    IF nextIndex # NullIndex
    THEN [st EXCEPT !.currentCardIndex = nextIndex, !.isFlipped = FALSE]
    ELSE [st EXCEPT !.currentCardIndex = len, !.isFlipped = FALSE]

F_nextCard ==
    /\ F_Event("nextCard", NoArg)
    /\ \E nextIndex \in getNextCardIndex(rendered.currentCardIndex, len,
                                         rendered.studyMode) :
          F_Commit(F_nextCardUpd(state, nextIndex),
                   session, TRUE, isLoading, studyMode, tasks)
    /\ UNCHANGED <<loadPc, storage, prefsPending, resetPending>>

F_previousCardUpd(st) ==
    [st EXCEPT !.currentCardIndex = st.currentCardIndex - 1,
               !.isFlipped = FALSE,
               !.isComplete = FALSE]

F_previousCard ==
    /\ F_Event("previousCard", NoArg)
    /\ IF rendered.currentCardIndex > 0
       THEN F_Commit(F_previousCardUpd(state), session, TRUE, isLoading,
                     studyMode, tasks)
       ELSE F_Commit(state, session, FALSE, isLoading, studyMode, tasks)
    /\ UNCHANGED <<loadPc, storage, prefsPending, resetPending>>

F_goToCardUpd(st, index) ==
    [st EXCEPT !.currentCardIndex = index,
               !.isFlipped = FALSE,
               !.isComplete = FALSE]

F_goToCard == \E index \in -1 .. MaxLen :
    /\ F_Event("goToCard", index)
    /\ IF index >= 0 /\ index < len
       THEN F_Commit(F_goToCardUpd(state, index), session, TRUE, isLoading,
                     studyMode, tasks)
       ELSE F_Commit(state, session, FALSE, isLoading, studyMode, tasks)
    /\ UNCHANGED <<loadPc, storage, prefsPending, resetPending>>

\* resetDeck up to its await of resetDeckProgress (taken when autoSave); what
\* follows the await only re-shuffles the cards.
F_resetDeck ==
    /\ F_Event("resetDeck", NoArg)
    /\ ~resetPending
    /\ F_Commit(InitialState, InitialSession, TRUE, isLoading, studyMode, tasks)
    /\ resetPending' = autoSave
    /\ UNCHANGED <<loadPc, storage, prefsPending>>

\* Mutant: resetDeckProgress that also drops the deck's statistics.
resetDeckProgress_All(stored) ==
    [stored EXCEPT !.progress = None, !.completed = FALSE, !.statistics = None]

\* flashcardUtils.resetDeckProgress: drops the deck's stored progress and its
\* entry in the completed decks.
resetDeckProgress(stored) ==
    [stored EXCEPT !.progress = None, !.completed = FALSE]

F_resetDeckProgress ==
    /\ resetPending
    /\ resetPending' = FALSE
    /\ storage' = resetDeckProgress(storage)
    /\ UNCHANGED <<state, rendered, flashcardsVars, saveTimer, saveDelay, change,
                   completion, tasks, prefsPending>>
    /\ F_Async

F_markAnswer == \E isCorrect \in BOOLEAN :
    /\ F_Event(Other, NoArg)
    /\ session.totalAnswers < MaxAnswers
    /\ F_Commit(state,
                [totalAnswers |-> session.totalAnswers + 1,
                 correctAnswers |-> session.correctAnswers
                                    + (IF isCorrect THEN 1 ELSE 0)],
                TRUE, isLoading, studyMode, tasks)
    /\ UNCHANGED <<loadPc, storage, prefsPending, resetPending>>

F_shuffleCardsUpd(st) == [st EXCEPT !.currentCardIndex = 0, !.isFlipped = FALSE]

F_shuffleCards ==
    /\ F_Event(Other, NoArg)
    /\ F_Commit(F_shuffleCardsUpd(state), session, FALSE, isLoading, studyMode, tasks)
    /\ UNCHANGED <<loadPc, storage, prefsPending, resetPending>>

\* What updatePreferences does once the preferences are saved: a changed study
\* mode restarts the deck at index 0.
F_applyStudyMode(st, newMode, oldMode) ==
    IF newMode # oldMode
    THEN [st EXCEPT !.currentCardIndex = 0, !.isFlipped = FALSE]
    ELSE st

\* updatePreferences({studyMode: newMode}); with autoSave it suspends at
\* saveUserPreferences before the study mode is applied.
F_updatePreferences == \E newMode \in StudyModes :
    /\ F_Event(Other, NoArg)
    /\ prefsPending = None
    /\ IF autoSave
       THEN /\ prefsPending' = Some([newMode |-> newMode,
                                          oldMode |-> rendered.studyMode])
            /\ F_Commit(state, session, FALSE, isLoading, newMode, tasks)
       ELSE /\ prefsPending' = None
            /\ F_Commit(F_applyStudyMode(state, newMode, rendered.studyMode),
                        session, FALSE, isLoading, newMode, tasks)
    /\ UNCHANGED <<loadPc, storage, resetPending>>

F_saveUserPreferences ==
    /\ prefsPending # None
    /\ prefsPending' = None
    /\ storage' = [storage EXCEPT !.preferences = The(prefsPending).newMode]
    /\ F_Commit(F_applyStudyMode(state, The(prefsPending).newMode,
                                 The(prefsPending).oldMode),
                session, FALSE, isLoading, studyMode, tasks)
    /\ UNCHANGED <<loadPc, resetPending>>
    /\ F_Async

\* loadInitialData, first await: the stored preferences (or the defaults).
F_loadUserPreferences ==
    /\ loadPc = "loadUserPreferences"
    /\ loadPc' = "loadProgress"
    /\ F_Commit(state, session, FALSE, isLoading, storage.preferences, tasks)
    /\ UNCHANGED <<storage, prefsPending, resetPending>>
    /\ F_Async

F_restoreProgressUpd(st, progress) ==
    IF progress # None /\ The(progress).currentCardIndex < len
    THEN [st EXCEPT !.currentCardIndex = The(progress).currentCardIndex,
                    !.progress = Frac(calculateProgress(The(progress).currentCardIndex,
                                                        len), 1)]
    ELSE st

\* loadInitialData, second await: the stored progress is restored, then
\* isLoading is cleared.
F_loadProgress == \E ok \in Outcomes :
    /\ loadPc = "loadProgress"
    /\ loadPc' = "done"
    /\ F_Commit(F_restoreProgressUpd(state, loadProgress(ok)),
                session, FALSE, FALSE, studyMode, tasks)
    /\ UNCHANGED <<storage, prefsPending, resetPending>>
    /\ F_After(Other, Failed(ok, "loadProgress"))

\* The debounce timer of the auto-save effect runs out: saveProgress is
\* called with what the effect captured.
F_saveProgress == \E ok \in Outcomes :
    /\ saveTimer # None
    /\ saveDelay <= 0
    /\ saveTimer' = None
    /\ saveDelay' = 0
    /\ storage' = Stored(ok, [storage EXCEPT !.progress = saveTimer])
    /\ UNCHANGED <<state, rendered, flashcardsVars, change, completion, tasks,
                   prefsPending, resetPending>>
    /\ F_After("saveProgress", Failed(ok, "saveProgress"))

ReplaceAt(seq, i, x) == [seq EXCEPT ![i] = x]
RemoveAt(seq, i) == SubSeq(seq, 1, i - 1) \o SubSeq(seq, i + 1, Len(seq))

\* completeSession, first await: the stored statistics are read and merged.
F_loadDeckStatistics == \E i \in DOMAIN tasks, ok \in Outcomes :
    /\ tasks[i].pc = "loadDeckStatistics"
    /\ loadDeckStatistics(ok) # None =>
           The(loadDeckStatistics(ok)).timesCompleted < caps.completed
    /\ tasks' = ReplaceAt(tasks, i,
                    [tasks[i] EXCEPT !.pc = "saveDeckStatistics",
                                     !.statistics = Some(MergedStatistics(
                                                         loadDeckStatistics(ok),
                                                         tasks[i].score))])
    /\ UNCHANGED <<state, rendered, flashcardsVars, storage, saveTimer,
                   saveDelay, change, completion, prefsPending, resetPending>>
    /\ F_After(Other, Failed(ok, "loadDeckStatistics"))

\* completeSession, second await: the merged statistics are written.
F_saveDeckStatistics == \E i \in DOMAIN tasks, ok \in Outcomes :
    /\ tasks[i].pc = "saveDeckStatistics"
    /\ tasks' = ReplaceAt(tasks, i, [tasks[i] EXCEPT !.pc = "markDeckCompleted"])
    /\ storage' = Stored(ok, [storage EXCEPT !.statistics = tasks[i].statistics])
    /\ UNCHANGED <<state, rendered, flashcardsVars, saveTimer, saveDelay, change,
                   completion, prefsPending, resetPending>>
    /\ F_After(Other, Failed(ok, "saveDeckStatistics"))

\* completeSession, third await and its end: the deck is marked completed,
\* then isComplete is set (and onComplete called).
F_markDeckCompleted == \E i \in DOMAIN tasks, ok \in Outcomes :
    /\ tasks[i].pc = "markDeckCompleted"
    /\ storage' = Stored(ok, [storage EXCEPT !.completed = TRUE])
    /\ F_Commit([state EXCEPT !.isComplete = TRUE], session, FALSE, isLoading,
                studyMode, RemoveAt(tasks, i))
    /\ UNCHANGED <<loadPc, prefsPending, resetPending>>
    /\ F_After(Other, Failed(ok, "markDeckCompleted"))

\* Time passes, by SaveTick milliseconds, unless the debounce timer is due.
F_tick ==
    /\ saveTimer = None \/ saveDelay > 0
    /\ saveTimer # None \/ change.age < SAVE_DEBOUNCE
    /\ saveDelay' = IF saveTimer = None THEN 0 ELSE saveDelay - SaveTick
    /\ change' = ChangeAfter(SaveTick)
    /\ UNCHANGED <<state, rendered, flashcardsVars, storage, saveTimer, tasks,
                   prefsPending, resetPending, completion>>
    /\ F_Async

\* The component that called useFlashcards unmounts: the cleanup of the
\* auto-save effect clears the debounce timer.  lastOp keeps whether a save
\* was pending (1) or not (0).  The awaits in flight go on.
F_unmount ==
    /\ hook = UseFlashcards
    /\ mounted
    /\ mounted' = FALSE
    /\ saveTimer' = clearTimeout(saveTimer)
    /\ saveDelay' = IF saveTimer' = None THEN 0 ELSE saveDelay
    /\ lastOp' = Op("unmount", IF saveTimer # None THEN 1 ELSE 0)
    /\ failure' = None
    /\ UNCHANGED <<state, rendered, flashcardsVars, storage, tasks, prefsPending,
                   resetPending, change, completion, advances, hookVars>>
    /\ UNCHANGED <<view, isAnimating, lastSwipeAge, swipeTimer, phase, translateX,
                   isAnimatingValue, lastGestureAge, resetTimers, sinceTap,
                   sinceTransition, lastEvent, dragStart>>

----------------------------------------------------------------------------

InitStorage ==
    {[preferences |-> m, progress |-> p, statistics |-> None, completed |-> FALSE] :
        m \in StudyModes,
        p \in {None} \cup {Some(ProgressOf([currentCardIndex |-> i], InitialSession)) :
                              i \in 1 .. MaxLen}}

\* The state after the first render of one of the hooks in hooks, on a deck
\* of one of the lengths in lens, with the autoSave prop set to save.
InitOf(hooks, lens, save) ==
    /\ hook \in hooks
    /\ len \in lens
    /\ state = InitialState
    /\ session = InitialSession
    /\ studyMode = "sequential"
    /\ IF hook = UseFlashcards
       THEN /\ isLoading = TRUE
            /\ loadPc = "loadUserPreferences"
            /\ autoSave = save
            /\ storage \in InitStorage
            /\ storage.progress # None => The(storage.progress).currentCardIndex <= len
       ELSE /\ isLoading = FALSE
            /\ loadPc = "done"
            /\ autoSave = FALSE
            /\ storage = [preferences |-> "sequential", progress |-> None,
                          statistics |-> None, completed |-> FALSE]
    /\ rendered = RenderOf(state, isLoading, studyMode)
    /\ saveTimer = None
    /\ tasks = <<>>
    /\ prefsPending = None
    /\ resetPending = FALSE
    /\ lastOp = Op(Other, NoArg)
    /\ advances = 0
    /\ saveDelay = 0
    /\ failure = None
    /\ change = [age |-> SAVE_DEBOUNCE, count |-> 0]
    /\ calls = 0
    /\ caps = [tasks |-> MaxTasks, completed |-> MaxCompleted]
    /\ completion = [before |-> None, calls |-> 0]

\* useThrottle after its first render: lastCall.current = 0, no timer; the
\* callback has not run. ev is the last event and via what ran the callback
\* last, the call itself or the timer.
InitialThrottle ==
    [lastCallAge |-> THROTTLE_DELAY, timer |-> None, sinceRun |-> THROTTLE_DELAY,
     ev |-> "init", via |-> "none", arg |-> 0]

\* No throttled function and no ThemeProvider in use.
NoThrottle == throttle = InitialThrottle
NoTheme == themeCtx = [theme |-> "light", isSystemTheme |-> FALSE,
                       isLoading |-> FALSE, scheme |-> "light", saved |-> None,
                       write |-> None, listenerIsSystemTheme |-> FALSE,
                       ev |-> "none"]

\* The hooks called directly: no screen, no gesture, no clock.
NoScreen ==
    /\ NoThrottle
    /\ NoTheme
    /\ mounted = TRUE
    /\ view = "none"
    /\ isAnimating = FALSE
    /\ lastSwipeAge = SWIPE_COOLDOWN
    /\ swipeTimer = None
    /\ phase = "idle"
    /\ translateX = "centre"
    /\ isAnimatingValue = FALSE
    /\ lastGestureAge = RAPID_GESTURE_COOLDOWN
    /\ resetTimers = {}
    /\ sinceTap = RAPID_GESTURE_COOLDOWN
    /\ sinceTransition = SWIPE_COOLDOWN
    /\ lastEvent = [ev |-> "mount", tx |-> 0, ty |-> 0, vx |-> 0,
                    wanted |-> "none", intent |-> "none"]
    /\ dragStart = "none"

\* Either hook on a deck of 0..MaxLen cards, autoSave off: storage is written
\* by completeSession only.
Init ==
    /\ InitOf({UseFlashcardState, UseFlashcards}, 0 .. MaxLen, FALSE)
    /\ NoScreen
    /\ faulty = FALSE

Next ==
    \/ S_flipCard
    \/ S_nextCard
    \/ S_previousCard
    \/ S_goToCard
    \/ S_resetDeck
    \/ F_flipCard
    \/ F_nextCard
    \/ F_previousCard
    \/ F_goToCard
    \/ F_resetDeck
    \/ F_markAnswer
    \/ F_shuffleCards
    \/ F_updatePreferences
    \/ F_loadUserPreferences
    \/ F_loadProgress
    \/ F_loadDeckStatistics
    \/ F_saveDeckStatistics
    \/ F_markDeckCompleted

Spec == Init /\ [][Next]_vars

\* useFlashcards with autoSave on (the prop's default) on a deck of two cards:
\* resetDeck and updatePreferences suspend at their storage call and the
\* debounced saveProgress is armed.
InitAutoSave ==
    /\ InitOf({UseFlashcards}, {2}, TRUE)
    /\ NoScreen
    /\ faulty = FALSE

NextAutoSave ==
    \/ F_flipCard
    \/ F_nextCard
    \/ F_previousCard
    \/ F_goToCard
    \/ F_resetDeck
    \/ F_resetDeckProgress
    \/ F_markAnswer
    \/ F_shuffleCards
    \/ F_updatePreferences
    \/ F_saveUserPreferences
    \/ F_loadUserPreferences
    \/ F_loadProgress
    \/ F_saveProgress
    \/ F_loadDeckStatistics
    \/ F_saveDeckStatistics
    \/ F_markDeckCompleted
    \/ F_tick

SpecAutoSave == InitAutoSave /\ [][NextAutoSave]_vars

\* useFlashcards with autoSave on, in sequential mode, on a deck of two cards
\* and over a storage adapter that can fail, with the clock and the unmount.
InitPersist ==
    /\ InitOf({UseFlashcards}, {2}, TRUE)
    /\ NoScreen
    /\ storage.preferences = "sequential"
    /\ faulty = TRUE

NextPersist ==
    \/ F_flipCard
    \/ F_nextCard
    \/ F_previousCard
    \/ F_resetDeck
    \/ F_resetDeckProgress
    \/ F_markAnswer
    \/ F_loadUserPreferences
    \/ F_loadProgress
    \/ F_saveProgress
    \/ F_loadDeckStatistics
    \/ F_saveDeckStatistics
    \/ F_markDeckCompleted
    \/ F_tick
    \/ F_unmount

SpecPersist == InitPersist /\ [][NextPersist]_vars

----------------------------------------------------------------------------
(* FlashcardsScreen, FlashCard and useFlashcardGestures *)

FlashCardView == "FlashCard"
GesturesView == "useFlashcardGestures"

Abs(x) == IF x < 0 THEN 0 - x ELSE x

\* The drags explored, by their translationX, translationY and velocityX at
\* the end: long and short, fast and slow, to either side, one that turns
\* back at the end, and two that are mostly vertical.
Drag(tx, ty, vx) == [tx |-> tx, ty |-> ty, vx |-> vx]
Drags == {Drag(-100, 0, -600), Drag(-100, 0, 0), Drag(-60, 0, -600),
          Drag(-40, 0, 0), Drag(100, 0, 600), Drag(100, 0, 0),
          Drag(60, 0, 600), Drag(-100, 0, 600),
          Drag(-40, 80, -600), Drag(-40, 80, 0)}

\* An event with its gesture data, the swipe callback the gesture asks for
\* (wanted) and the one that was called (intent): left, right or none.
Event(ev, tx, ty, vx, wanted, intent) ==
    [ev |-> ev, tx |-> tx, ty |-> ty, vx |-> vx, wanted |-> wanted,
     intent |-> intent]
PlainEvent(ev) == Event(ev, 0, 0, 0, "none", "none")

\* The selectors of the last render of useFlashcardState, and the disabled
\* prop the screen derives (its own isComplete is set by handleDeckComplete
\* only).
canGoNext == rendered.currentCardIndex < len - 1
canGoPrevious == rendered.currentCardIndex > 0
hasCurrentCard == rendered.currentCardIndex < len
disabled == ~hasCurrentCard

\* An age or a delay after one step of the clock.
Older(age, cap) == IF age + Tick >= cap THEN cap ELSE age + Tick
Due(delay) == delay <= 0

\* The hook is not called by this event.
S_Idle == UNCHANGED <<state, rendered, lastOp, advances, hookVars,
                      flashcardsVars, persistVars>>

\* A setState of the session hook made by a screen callback: dropped once
\* the screen is unmounted.
S_Call(st, name) ==
    IF mounted THEN S_Event(st, name, NoArg) ELSE S_Idle

\* Mutant: the swipe callbacks without their cooldown.
SwipeAccepted_NoCooldown == ~isAnimating

\* handleSwipeLeft and handleSwipeRight pass their first guard.
SwipeAccepted == lastSwipeAge >= SWIPE_COOLDOWN /\ ~isAnimating

\* Mutant: the swipe callbacks without their canGoNext / canGoPrevious guard.
handleSwipe_Unguarded(action, can) ==
    IF SwipeAccepted
    THEN /\ lastSwipeAge' = 0
         /\ isAnimating' = TRUE
         /\ swipeTimer' = Some([action |-> action, delay |-> SWIPE_TRANSITION_DELAY])
    ELSE UNCHANGED <<lastSwipeAge, isAnimating, swipeTimer>>

\* handleSwipeLeft (action nextCard, guard canGoNext) and handleSwipeRight
\* (action previousCard, guard canGoPrevious).
handleSwipe(action, can) ==
    IF SwipeAccepted
    THEN /\ lastSwipeAge' = 0
         /\ IF can
            THEN /\ isAnimating' = TRUE
                 /\ swipeTimer' = Some([action |-> action,
                                        delay |-> SWIPE_TRANSITION_DELAY])
            ELSE UNCHANGED <<isAnimating, swipeTimer>>
    ELSE UNCHANGED <<lastSwipeAge, isAnimating, swipeTimer>>

\* The swipe callback an intent runs, if any.
SwipeCallback(intent) ==
    IF intent = "left" THEN handleSwipe("nextCard", canGoNext)
    ELSE IF intent = "right" THEN handleSwipe("previousCard", canGoPrevious)
    ELSE UNCHANGED <<lastSwipeAge, isAnimating, swipeTimer>>

\* handleFlip: flipCard unless the screen is animating.
handleFlip ==
    IF ~isAnimating
    THEN S_Call(S_flipCardUpd(state), "flipCard")
    ELSE S_Idle

\* FlashCard.handlePanGestureStateChange: the callback chosen at State.END.
FlashCardIntent(tx, vx) ==
    IF 4 * tx > ScreenWidth \/ vx > velocityThreshold THEN "right"
    ELSE IF 4 * tx < 0 - ScreenWidth \/ vx < 0 - velocityThreshold THEN "left"
    ELSE "none"

\* panGestureHandler.onEnd of useFlashcardGestures: the callback its
\* thresholds ask for (onSwipeLeft, onSwipeRight or none) ...
GestureWanted(tx, ty, vx) ==
    IF 10 * Abs(ty) > 7 * Abs(tx) THEN "none"
    ELSE IF 4 * tx > ScreenWidth \/ (tx > 50 /\ vx > SWIPE_VELOCITY_THRESHOLD)
         THEN "left"
    ELSE IF 4 * tx < 0 - ScreenWidth
            \/ (tx < 0 - 50 /\ vx < 0 - SWIPE_VELOCITY_THRESHOLD)
         THEN "right"
    ELSE "none"

\* ... and the one it calls, given canSwipeLeft and canSwipeRight as the
\* screen passes them.
GestureIntent(tx, ty, vx) ==
    IF GestureWanted(tx, ty, vx) = "left" /\ canGoNext /\ ~isAnimating THEN "left"
    ELSE IF GestureWanted(tx, ty, vx) = "right" /\ canGoPrevious /\ ~isAnimating
         THEN "right"
    ELSE "none"

\* A tap on the card: FlashCard.handlePress, or tapGestureHandler.onEnd.
Tap ==
    /\ mounted /\ hasCurrentCard
    /\ sinceTap > 0
    /\ sinceTap' = 0
    /\ lastEvent' = PlainEvent("tap")
    /\ IF view = FlashCardView \/ ~(disabled \/ isAnimatingValue)
       THEN handleFlip
       ELSE S_Idle
    /\ UNCHANGED <<mounted, view, isAnimating, lastSwipeAge, swipeTimer, phase,
                   translateX, isAnimatingValue, lastGestureAge, resetTimers,
                   sinceTransition, dragStart>>

\* A drag begins: panGestureHandler.onStart (FlashCard has no handler for it).
PanStart ==
    /\ mounted /\ hasCurrentCard
    /\ phase = "idle"
    /\ phase' = "dragging"
    /\ lastEvent' = PlainEvent("panStart")
    /\ IF view = GesturesView /\ ~disabled /\ lastGestureAge >= RAPID_GESTURE_COOLDOWN
       THEN /\ lastGestureAge' = 0
            /\ isAnimatingValue' = FALSE
       ELSE UNCHANGED <<lastGestureAge, isAnimatingValue>>
    /\ dragStart' = IF view = GesturesView /\ ~disabled
                       /\ lastGestureAge < RAPID_GESTURE_COOLDOWN
                    THEN "dropped"
                    ELSE "taken"
    /\ S_Idle
    /\ UNCHANGED <<mounted, view, isAnimating, lastSwipeAge, swipeTimer,
                   translateX, resetTimers, sinceTap, sinceTransition>>

\* The finger moves: Animated.event of FlashCard, or panGestureHandler.onActive.
PanActive ==
    /\ mounted
    /\ phase = "dragging"
    /\ lastEvent' = PlainEvent("panActive")
    /\ translateX' = IF view = FlashCardView \/ ~(disabled \/ isAnimatingValue)
                     THEN "dragged"
                     ELSE translateX
    /\ S_Idle
    /\ UNCHANGED <<mounted, view, isAnimating, lastSwipeAge, swipeTimer, phase,
                   isAnimatingValue, lastGestureAge, resetTimers, sinceTap,
                   sinceTransition, dragStart>>

\* The drag ends in FlashCard: the card springs back and the callback runs.
FlashCardPanEnd(tx, ty, vx) ==
    /\ view = FlashCardView
    /\ lastEvent' = Event("panEnd", tx, ty, vx, FlashCardIntent(tx, vx),
                          FlashCardIntent(tx, vx))
    /\ translateX' = "centre"
    /\ SwipeCallback(FlashCardIntent(tx, vx))
    /\ UNCHANGED <<isAnimatingValue, resetTimers>>

\* The drag ends in useFlashcardGestures: onEnd, then onFinish.
GesturesPanEnd(tx, ty, vx) ==
    /\ view = GesturesView
    /\ IF disabled
       THEN /\ lastEvent' = Event("panEnd", tx, ty, vx, "none", "none")
            /\ translateX' = IF isAnimatingValue THEN translateX ELSE "centre"
            /\ UNCHANGED <<isAnimatingValue, resetTimers, lastSwipeAge,
                           isAnimating, swipeTimer>>
       ELSE /\ lastEvent' = Event("panEnd", tx, ty, vx, GestureWanted(tx, ty, vx),
                                  GestureIntent(tx, ty, vx))
            /\ SwipeCallback(GestureIntent(tx, ty, vx))
            /\ IF GestureIntent(tx, ty, vx) = "none"
               THEN /\ translateX' = "centre"
                    /\ isAnimatingValue' = FALSE
                    /\ UNCHANGED resetTimers
               ELSE /\ translateX' = "offscreen"
                    /\ isAnimatingValue' = TRUE
                    /\ resetTimers' = resetTimers \cup {RESET_DELAY}

PanEnd == \E d \in Drags :
    /\ mounted
    /\ phase = "dragging"
    /\ phase' = "idle"
    /\ dragStart' = "none"
    /\ FlashCardPanEnd(d.tx, d.ty, d.vx) \/ GesturesPanEnd(d.tx, d.ty, d.vx)
    /\ S_Idle
    /\ UNCHANGED <<mounted, view, lastGestureAge, sinceTap, sinceTransition>>

\* The transition timer of handleSwipeLeft / handleSwipeRight runs: the
\* session action, then setIsAnimating(false).  Nothing clears it on unmount.
SwipeTimerFires ==
    /\ swipeTimer # None
    /\ Due(The(swipeTimer).delay)
    /\ swipeTimer' = None
    /\ lastEvent' = PlainEvent("swipeTimer")
    /\ sinceTransition' = 0
    /\ IF The(swipeTimer).action = "nextCard"
       THEN S_Call(S_nextCardUpd(state, rendered), "nextCard")
       ELSE S_Call(S_previousCardUpd(state, rendered), "previousCard")
    /\ isAnimating' = IF mounted THEN FALSE ELSE isAnimating
    /\ UNCHANGED <<mounted, view, lastSwipeAge, phase, translateX,
                   isAnimatingValue, lastGestureAge, resetTimers, sinceTap,
                   dragStart>>

\* A reset-to-centre timer of panGestureHandler.onEnd runs resetToCenter.
\* Neither onStart nor the unmount clears it.
ResetTimerFires == \E t \in resetTimers :
    /\ Due(t)
    /\ resetTimers' = resetTimers \ {t}
    /\ lastEvent' = PlainEvent("resetTimer")
    /\ translateX' = "centre"
    /\ isAnimatingValue' = FALSE
    /\ S_Idle
    /\ UNCHANGED <<mounted, view, isAnimating, lastSwipeAge, swipeTimer, phase,
                   lastGestureAge, sinceTap, sinceTransition, dragStart>>

\* Time passes, by Tick milliseconds, unless a timer is due.
Clock ==
    /\ swipeTimer # None => ~Due(The(swipeTimer).delay)
    /\ \A t \in resetTimers : ~Due(t)
    /\ lastEvent' = PlainEvent("tick")
    /\ lastSwipeAge' = Older(lastSwipeAge, SWIPE_COOLDOWN)
    /\ lastGestureAge' = Older(lastGestureAge, RAPID_GESTURE_COOLDOWN)
    /\ sinceTap' = Older(sinceTap, RAPID_GESTURE_COOLDOWN)
    /\ sinceTransition' = Older(sinceTransition, SWIPE_COOLDOWN)
    /\ swipeTimer' = IF swipeTimer = None THEN None
                     ELSE Some([The(swipeTimer) EXCEPT !.delay = @ - Tick])
    /\ resetTimers' = {t - Tick : t \in resetTimers}
    /\ S_Idle
    /\ UNCHANGED <<mounted, view, isAnimating, phase, translateX, isAnimatingValue,
                   dragStart>>

\* The screen unmounts; it has no cleanup for its timers.
Unmount ==
    /\ mounted
    /\ mounted' = FALSE
    /\ lastEvent' = PlainEvent("unmount")
    /\ phase' = "idle"
    /\ dragStart' = "none"
    /\ S_Idle
    /\ UNCHANGED <<view, isAnimating, lastSwipeAge, swipeTimer, translateX,
                   isAnimatingValue, lastGestureAge, resetTimers, sinceTap,
                   sinceTransition>>

\* FlashcardsScreen over useFlashcardState on a deck of 1..MaxLen cards, with
\* either card view.
InitScreen ==
    /\ InitOf({UseFlashcardState}, 1 .. MaxLen, FALSE)
    /\ faulty = FALSE
    /\ NoThrottle
    /\ NoTheme
    /\ mounted = TRUE
    /\ view \in {FlashCardView, GesturesView}
    /\ isAnimating = FALSE
    /\ lastSwipeAge = SWIPE_COOLDOWN
    /\ swipeTimer = None
    /\ phase = "idle"
    /\ translateX = "centre"
    /\ isAnimatingValue = FALSE
    /\ lastGestureAge = RAPID_GESTURE_COOLDOWN
    /\ resetTimers = {}
    /\ sinceTap = RAPID_GESTURE_COOLDOWN
    /\ sinceTransition = SWIPE_COOLDOWN
    /\ lastEvent = PlainEvent("mount")
    /\ dragStart = "none"

NextScreen ==
    \/ Tap
    \/ PanStart
    \/ PanActive
    \/ PanEnd
    \/ SwipeTimerFires
    \/ ResetTimerFires
    \/ Clock
    \/ Unmount

SpecScreen == InitScreen /\ [][NextScreen]_vars

\* The screen on a deck of one or two cards, with time passing and every
\* timer that is due running.
InitLastCard ==
    /\ InitScreen
    /\ len <= LastCardMaxLen

SpecLastCard ==
    /\ InitLastCard
    /\ [][NextScreen]_vars
    /\ WF_vars(Clock)
    /\ WF_vars(SwipeTimerFires)
    /\ WF_vars(ResetTimerFires)

\* useFlashcardState on a deck of 1..MaxLen cards, its handlers called up to
\* MaxBatch times between two renders.
InitBatched ==
    /\ InitOf({UseFlashcardState}, 1 .. MaxLen, FALSE)
    /\ NoScreen
    /\ faulty = FALSE

NextBatched ==
    \/ B_flipCard
    \/ B_nextCard
    \/ B_previousCard
    \/ B_render

SpecBatched == InitBatched /\ [][NextBatched]_vars

----------------------------------------------------------------------------
(* useThrottle *)

\* Everything of the session hooks and the screen, which neither useThrottle
\* nor ThemeProvider touches.
sessionVars == <<state, rendered, lastOp, advances, hook, len, autoSave, faulty,
                 caps, calls, flashcardsVars, persistVars, screenVars>>

\* An age after step milliseconds, up to cap.
AgeAfter(age, step, cap) == IF age + step >= cap THEN cap ELSE age + step

\* now - lastCall.current >= delay
ThrottleOpen(t) == t.lastCallAge >= THROTTLE_DELAY

\* throttledCallback(arg): the callback runs at once when the delay has passed
\* since lastCall; otherwise the pending timer is replaced by one that ends
\* delay after lastCall.
T_call == \E arg \in 1 .. MaxArg :
    /\ throttle' =
          IF ThrottleOpen(throttle)
          THEN [throttle EXCEPT !.lastCallAge = 0, !.sinceRun = 0,
                                !.ev = "run", !.via = "call", !.arg = arg]
          ELSE [throttle EXCEPT !.timer = Some([delay |-> THROTTLE_DELAY
                                                           - throttle.lastCallAge,
                                                arg |-> arg]),
                                !.ev = "scheduled"]
    /\ UNCHANGED <<sessionVars, themeCtx>>

\* The timer runs out: lastCall.current = Date.now(), then the callback.
T_timer ==
    /\ throttle.timer # None
    /\ The(throttle.timer).delay <= 0
    /\ throttle' = [throttle EXCEPT !.lastCallAge = 0, !.sinceRun = 0,
                                    !.timer = None, !.ev = "run",
                                    !.via = "timer",
                                    !.arg = The(throttle.timer).arg]
    /\ UNCHANGED <<sessionVars, themeCtx>>

\* Time passes, by ThrottleTick milliseconds, unless the timer is due.
T_tick ==
    /\ throttle.timer # None => The(throttle.timer).delay > 0
    /\ throttle' =
          [throttle EXCEPT
              !.lastCallAge = AgeAfter(@, ThrottleTick, THROTTLE_DELAY),
              !.sinceRun = AgeAfter(@, ThrottleTick, THROTTLE_DELAY),
              !.timer = IF @ = None THEN None
                        ELSE Some([The(@) EXCEPT !.delay = @ - ThrottleTick]),
              !.ev = "tick"]
    /\ UNCHANGED <<sessionVars, themeCtx>>

InitThrottle ==
    /\ InitOf({UseFlashcardState}, {1}, FALSE)
    /\ faulty = FALSE
    /\ NoScreen

NextThrottle ==
    \/ T_call
    \/ T_timer
    \/ T_tick

SpecThrottle == InitThrottle /\ [][NextThrottle]_vars

----------------------------------------------------------------------------
(* ThemeProvider *)

Schemes == {"light", "dark", "null"}

\* colorScheme === 'dark' ? 'dark' : 'light'
ThemeOf(colorScheme) == IF colorScheme = "dark" THEN "dark" ELSE "light"

\* The Appearance listener is subscribed by an effect with no dependencies,
\* so it keeps the handleSystemThemeChange of the first render and the
\* isSystemTheme that render had.
ListenerIsSystemTheme(t) == t.listenerIsSystemTheme

\* handleSystemThemeChange as the listener calls it: the theme it leaves.
handleSystemThemeChangeUpd(t, colorScheme) ==
    IF ListenerIsSystemTheme(t) /\ colorScheme # "null"
    THEN ThemeOf(colorScheme)
    ELSE t.theme

\* loadTheme after its await: a saved theme is applied, otherwise the system
\* scheme is followed; a storage failure falls back to light.
Th_loadTheme == \E ok \in BOOLEAN :
    /\ themeCtx.isLoading
    /\ themeCtx' =
          IF ~ok
          THEN [themeCtx EXCEPT !.theme = "light", !.isSystemTheme = FALSE,
                                !.isLoading = FALSE, !.ev = "loadTheme"]
          ELSE IF themeCtx.saved # None
          THEN [themeCtx EXCEPT !.theme = The(themeCtx.saved),
                                !.isSystemTheme = FALSE,
                                !.isLoading = FALSE, !.ev = "loadTheme"]
          ELSE [themeCtx EXCEPT !.theme = ThemeOf(themeCtx.scheme),
                                !.isSystemTheme = TRUE,
                                !.isLoading = FALSE, !.ev = "loadTheme"]
    /\ UNCHANGED <<sessionVars, throttle>>

\* The system colour scheme changes and the Appearance listener runs.
Th_systemChange == \E colorScheme \in Schemes :
    /\ colorScheme # themeCtx.scheme
    /\ themeCtx' = [themeCtx EXCEPT
                       !.scheme = colorScheme,
                       !.theme = handleSystemThemeChangeUpd(themeCtx, colorScheme),
                       !.ev = "systemChange"]
    /\ UNCHANGED <<sessionVars, throttle>>

\* toggleTheme up to its await of storage.set.
Th_toggleTheme ==
    /\ themeCtx.write = None
    /\ themeCtx' = [themeCtx EXCEPT
                       !.theme = IF @ = "light" THEN "dark" ELSE "light",
                       !.isSystemTheme = FALSE,
                       !.write = Some(IF themeCtx.theme = "light" THEN "dark"
                                      ELSE "light"),
                       !.ev = "toggleTheme"]
    /\ UNCHANGED <<sessionVars, throttle>>

\* setSystemTheme up to its await of storage.remove.
Th_setSystemTheme ==
    /\ themeCtx.write = None
    /\ themeCtx' = [themeCtx EXCEPT
                       !.theme = ThemeOf(themeCtx.scheme),
                       !.isSystemTheme = TRUE,
                       !.write = Some("remove"),
                       !.ev = "setSystemTheme"]
    /\ UNCHANGED <<sessionVars, throttle>>

\* The storage.set or storage.remove of the two actions resolves or fails.
Th_write == \E ok \in BOOLEAN :
    /\ themeCtx.write # None
    /\ themeCtx' = [themeCtx EXCEPT
                       !.saved = IF ~ok THEN @
                                 ELSE IF The(themeCtx.write) = "remove" THEN None
                                 ELSE themeCtx.write,
                       !.write = None,
                       !.ev = "write"]
    /\ UNCHANGED <<sessionVars, throttle>>

\* ThemeProvider after its first render: theme light, isSystemTheme false,
\* loading; the listener is subscribed with that render's closure.
InitTheme ==
    /\ InitOf({UseFlashcardState}, {1}, FALSE)
    /\ faulty = FALSE
    /\ NoThrottle
    /\ \E sc \in Schemes, sv \in {None, Some("light"), Some("dark")} :
          themeCtx = [theme |-> "light", isSystemTheme |-> FALSE,
                      isLoading |-> TRUE, scheme |-> sc, saved |-> sv,
                      write |-> None, listenerIsSystemTheme |-> FALSE,
                      ev |-> "mount"]
    /\ mounted = TRUE
    /\ view = "none"
    /\ isAnimating = FALSE
    /\ lastSwipeAge = SWIPE_COOLDOWN
    /\ swipeTimer = None
    /\ phase = "idle"
    /\ translateX = "centre"
    /\ isAnimatingValue = FALSE
    /\ lastGestureAge = RAPID_GESTURE_COOLDOWN
    /\ resetTimers = {}
    /\ sinceTap = RAPID_GESTURE_COOLDOWN
    /\ sinceTransition = SWIPE_COOLDOWN
    /\ lastEvent = PlainEvent("mount")
    /\ dragStart = "none"

NextTheme ==
    \/ Th_loadTheme
    \/ Th_systemChange
    \/ Th_toggleTheme
    \/ Th_setSystemTheme
    \/ Th_write

SpecTheme == InitTheme /\ [][NextTheme]_vars

----------------------------------------------------------------------------

\* What an earlier session of the application can have left in the storage
\* of a deck of n cards: a progress saved at any index, before or after an
\* answer, and the statistics of one or more completions.
StoredProgresses(n) ==
    {[currentCardIndex |-> i, correctAnswers |-> a, totalAnswers |-> a] :
        i \in 0 .. n, a \in 0 .. MaxAnswers}
StoredStatistics ==
    {[timesCompleted |-> k, averageScore |-> a] :
        k \in 1 .. StatsMaxCompleted - 1, a \in {50, 67}}

\* useFlashcards with autoSave on, in sequential mode, on a deck of one card,
\* over a storage an earlier session has written.
InitStats ==
    /\ hook = UseFlashcards
    /\ len = 1
    /\ state = InitialState
    /\ session = InitialSession
    /\ studyMode = "sequential"
    /\ isLoading = TRUE
    /\ loadPc = "loadUserPreferences"
    /\ autoSave = TRUE
    /\ faulty = FALSE
    /\ \E p \in {None} \cup {Some(x) : x \in StoredProgresses(len)},
          st \in {None} \cup {Some(x) : x \in StoredStatistics} :
           /\ storage = [preferences |-> "sequential", progress |-> p,
                         statistics |-> st, completed |-> st # None]
    /\ rendered = RenderOf(state, isLoading, studyMode)
    /\ saveTimer = None
    /\ tasks = <<>>
    /\ prefsPending = None
    /\ resetPending = FALSE
    /\ lastOp = Op(Other, NoArg)
    /\ advances = 0
    /\ saveDelay = 0
    /\ failure = None
    /\ change = [age |-> SAVE_DEBOUNCE, count |-> 0]
    /\ calls = 0
    /\ caps = [tasks |-> StatsMaxTasks, completed |-> StatsMaxCompleted]
    /\ completion = [before |-> storage.statistics, calls |-> 0]
    /\ NoScreen

NextStats ==
    \/ F_nextCard
    \/ F_resetDeck
    \/ F_resetDeckProgress
    \/ F_markAnswer
    \/ F_loadUserPreferences
    \/ F_loadProgress
    \/ F_loadDeckStatistics
    \/ F_saveDeckStatistics
    \/ F_markDeckCompleted

SpecStats == InitStats /\ [][NextStats]_vars

\* useFlashcards on a deck of 1..MaxLen cards whose user does nothing but
\* advance: nextCard is called again and again, and every await resolves.
InitAdvance ==
    /\ InitOf({UseFlashcards}, 1 .. MaxLen, FALSE)
    /\ NoScreen
    /\ faulty = FALSE

NextAdvance ==
    \/ F_nextCard
    \/ F_loadUserPreferences
    \/ F_loadProgress
    \/ F_loadDeckStatistics
    \/ F_saveDeckStatistics
    \/ F_markDeckCompleted

SpecAdvance ==
    /\ InitAdvance
    /\ [][NextAdvance]_vars
    /\ WF_vars(F_nextCard)
    /\ WF_vars(F_loadUserPreferences)
    /\ WF_vars(F_loadProgress)
    /\ WF_vars(F_loadDeckStatistics)
    /\ WF_vars(F_saveDeckStatistics)
    /\ WF_vars(F_markDeckCompleted)

----------------------------------------------------------------------------
(* The claims *)

Min(a, b) == IF a < b THEN a ELSE b

NavigationOps == {"nextCard", "previousCard", "goToCard"}

\* C1: in every reachable state, 0 <= currentIndex <= length.
C1_IndexInRange ==
    /\ state.currentCardIndex >= 0
    /\ state.currentCardIndex <= len

\* nextCard has just moved a session of the longest deck past its last card.
C1_Witness ==
    /\ lastOp.op = "nextCard"
    /\ len = MaxLen
    /\ state.currentCardIndex = len

\* C2: in every reachable state currentIndex equals the number of cards if
\* and only if isComplete is true (stated for a non-empty deck with no
\* completeSession in flight, where the claim is at its strongest).
C2_CompleteIffAtEnd ==
    (len > 0 /\ tasks = <<>>) =>
        (state.currentCardIndex = len <=> state.isComplete)

\* C3: every step that changes currentIndex leaves isFlipped false.
C3_IndexChangeClearsFlip ==
    [][state'.currentCardIndex # state.currentCardIndex => ~state'.isFlipped]_vars

\* C4: after N nextCard calls from the initial state, currentIndex is
\* min(N, length), and it is length exactly when isComplete (stated for a
\* non-empty deck with no completeSession in flight).
C4_AdvancesReachMin ==
    (advances >= 0 /\ len > 0 /\ tasks = <<>>) =>
        /\ state.currentCardIndex = Min(advances, len)
        /\ state.currentCardIndex = len <=> state.isComplete

\* C5: flipCard toggles isFlipped (and nothing else) in an active session and
\* changes nothing in a complete one.
C5_FlipTogglesOnlyWhenActive ==
    [][lastOp'.op = "flipCard" =>
          IF state.isComplete
          THEN state' = state
          ELSE state' = [state EXCEPT !.isFlipped = ~state.isFlipped]]_vars

\* C6 as claimed: previousCard called in the Complete state leaves the
\* session state unchanged.
C6_RetreatKeepsComplete ==
    [][(lastOp'.op = "previousCard" /\ state.isComplete) => state' = state]_vars

\* C6 as amended: previousCard called at the end of a non-empty deck
\* (currentIndex = length, the Complete state) moves to the last card:
\* currentIndex = length - 1, isFlipped false, isComplete false.
C6_RetreatLeavesComplete ==
    [][(lastOp'.op = "previousCard" /\ state.currentCardIndex = len /\ len > 0) =>
          /\ state'.currentCardIndex = len - 1
          /\ ~state'.isFlipped
          /\ ~state'.isComplete]_vars

\* previousCard has just arrived at the last card of a deck of two or more
\* cards: it decrements by one, so it was called at currentIndex = length.
C6_Witness ==
    /\ lastOp.op = "previousCard"
    /\ len >= 2
    /\ state.currentCardIndex = len - 1
    /\ ~state.isComplete

\* C7: goToCard(i) with 0 <= i < length sets currentIndex to i, isFlipped and
\* isComplete to false; with i out of that range it leaves the session state
\* (and the session counters) unchanged.
C7_JumpTo ==
    [][lastOp'.op = "goToCard" =>
          IF lastOp'.arg >= 0 /\ lastOp'.arg < len
          THEN /\ state'.currentCardIndex = lastOp'.arg
               /\ ~state'.isFlipped
               /\ ~state'.isComplete
          ELSE /\ state' = state
               /\ session' = session]_vars

\* goToCard(length - 1) has just moved a session whose deck had been
\* completed back to the last card of a deck of two or more cards.
C7_Witness ==
    /\ lastOp.op = "goToCard"
    /\ lastOp.arg = len - 1
    /\ len >= 2
    /\ storage.completed
    /\ state.currentCardIndex = len - 1
    /\ ~state.isComplete

\* C8: resetDeck returns the session to currentIndex 0, isFlipped false,
\* isComplete false and zeroes totalAnswers and correctAnswers.
C8_ResetRestoresInitial ==
    lastOp.op = "resetDeck" =>
        /\ state.currentCardIndex = 0
        /\ ~state.isFlipped
        /\ ~state.isComplete
        /\ session.totalAnswers = 0
        /\ session.correctAnswers = 0

\* resetDeck has just been called in useFlashcards after the deck was
\* completed (its statistics are stored).
C8_Witness ==
    /\ lastOp.op = "resetDeck"
    /\ hook = UseFlashcards
    /\ storage.statistics # None
    /\ storage.completed

\* C9 as claimed: after nextCard, previousCard or goToCard, once the effects
\* have run, progress is round(currentIndex / length * 100).
C9_ProgressRounded ==
    (lastOp.op \in NavigationOps /\ len > 0) =>
        FracEq(state.progress, Frac(MathRound(state.currentCardIndex * 100, len), 1))

\* C9 as amended: after nextCard, previousCard or goToCard on a non-empty
\* deck, once the effects have run, progress is round(currentIndex / length *
\* 100) in useFlashcards and the unrounded currentIndex / length * 100 in
\* useFlashcardState.
C9_ProgressOfIndex ==
    (lastOp.op \in NavigationOps /\ len > 0) =>
        IF hook = UseFlashcards
        THEN state.progress = Frac(MathRound(state.currentCardIndex * 100, len), 1)
        ELSE FracEq(state.progress, Frac(state.currentCardIndex * 100, len))

\* nextCard has just moved useFlashcards to a card whose share of the deck
\* is no whole percentage.
C9_Witness ==
    /\ lastOp.op = "nextCard"
    /\ hook = UseFlashcards
    /\ len > 0
    /\ (state.currentCardIndex * 100) % len # 0

\* C10: progress never decreases across nextCard, never increases across
\* previousCard, and is always within [0, 100].
C10_ProgressMonotone ==
    [][/\ lastOp'.op = "nextCard" => FracLeq(state.progress, state'.progress)
       /\ lastOp'.op = "previousCard" => FracLeq(state'.progress, state.progress)
       /\ FracLeq(Frac(0, 1), state'.progress)
       /\ FracLeq(state'.progress, Frac(100, 1))]_vars

\* C11: a tap arriving within the cooldown window of the previous tap does
\* not toggle isFlipped again: two rapid taps make exactly one toggle (stated
\* for the shortest window the gesture code knows, RAPID_GESTURE_COOLDOWN).
C11_RapidTapsToggleOnce ==
    [][(lastEvent'.ev = "tap" /\ sinceTap < RAPID_GESTURE_COOLDOWN) =>
          state'.isFlipped = state.isFlipped]_vars

\* A horizontal drag beyond the distance and velocity thresholds of both card
\* views, moving the way it points.
DecisiveSwipe(e) ==
    /\ e.ev = "panEnd"
    /\ e.ty = 0
    /\ 4 * Abs(e.tx) > ScreenWidth
    /\ Abs(e.vx) > velocityThreshold
    /\ e.tx * e.vx > 0

NextCardTimer == Some([action |-> "nextCard", delay |-> SWIPE_TRANSITION_DELAY])
PreviousCardTimer == Some([action |-> "previousCard", delay |-> SWIPE_TRANSITION_DELAY])

\* C12: a recognised horizontal swipe with translationX < 0 starts the advance
\* exactly when canGoNext, one with translationX > 0 starts the retreat exactly
\* when canGoPrevious; and translationX = -60 with velocityX = -600 on a 3-card
\* deck at index 0 starts the advance (stated for swipes that meet no cooldown
\* and no running transition).
C12_SwipeDirection ==
    [][(lastEvent'.ev = "panEnd" /\ SwipeAccepted) =>
          /\ (DecisiveSwipe(lastEvent') /\ lastEvent'.tx < 0) =>
                 swipeTimer' = IF canGoNext THEN NextCardTimer ELSE None
          /\ (DecisiveSwipe(lastEvent') /\ lastEvent'.tx > 0) =>
                 swipeTimer' = IF canGoPrevious THEN PreviousCardTimer ELSE None
          /\ (/\ lastEvent'.tx = 0 - 60 /\ lastEvent'.ty = 0
              /\ lastEvent'.vx = 0 - 600
              /\ len = 3 /\ state.currentCardIndex = 0) =>
                 swipeTimer' = NextCardTimer]_vars

\* C13: a drag whose vertical displacement dominates (|translationY| > 0.7 *
\* |translationX|) starts no transition, whatever its velocity: the card
\* snaps back and the session state is unchanged.
C13_VerticalDragIgnored ==
    [][(lastEvent'.ev = "panEnd"
        /\ 10 * Abs(lastEvent'.ty) > 7 * Abs(lastEvent'.tx)) =>
          /\ swipeTimer' = swipeTimer
          /\ state' = state
          /\ translateX' = "centre"]_vars

C15_SwipeCooldown ==
    [][/\ (/\ lastEvent'.ev = "panEnd"
           /\ lastEvent'.intent # "none"
           /\ lastSwipeAge < SWIPE_COOLDOWN) =>
              UNCHANGED <<lastSwipeAge, isAnimating, swipeTimer, state>>
       /\ (lastEvent'.ev = "swipeTimer" /\ mounted) =>
              sinceTransition >= SWIPE_COOLDOWN]_vars

\* A swipe callback has just been dropped for the cooldown alone: it came
\* after the previous transition had run, less than SWIPE_COOLDOWN after the
\* swipe that started it.
C15_Witness ==
    /\ lastEvent.ev = "panEnd"
    /\ lastEvent.intent # "none"
    /\ lastSwipeAge > 0
    /\ lastSwipeAge < SWIPE_COOLDOWN
    /\ sinceTransition < SWIPE_COOLDOWN
    /\ ~isAnimating
    /\ swipeTimer = None

\* C16: once the screen is unmounted, no transition timer and no
\* reset-to-centre timer runs its callback.
C16_NoTimerAfterUnmount ==
    [][~mounted => lastEvent'.ev \notin {"swipeTimer", "resetTimer"}]_vars

\* C17: while a drag is in progress, no reset-to-centre timer of an earlier
\* gesture changes the card's translation or isAnimating.
C17_NoResetDuringDrag ==
    [][(phase = "dragging" /\ lastEvent'.ev = "resetTimer") =>
          /\ translateX' = translateX
          /\ isAnimatingValue' = isAnimatingValue]_vars


\* C18: with auto-save on and loading finished, a burst of index changes less
\* than a second apart leads to one saveProgress call, one second after the
\* last change, with the final index.  Each index change restarts the timer at
\* the full delay with the new index; less than SAVE_DEBOUNCE after a change
\* the timer is still pending and not due; saveProgress is called no earlier
\* than SAVE_DEBOUNCE after the last change, carries the current index, and
\* leaves no timer behind.
C18_DebouncedSave ==
    /\ [](mounted /\ autoSave /\ ~isLoading /\ change.age = 0 =>
              /\ saveTimer # None
              /\ saveDelay = SAVE_DEBOUNCE)
    /\ [](mounted /\ autoSave /\ ~isLoading /\ change.age < SAVE_DEBOUNCE =>
              /\ saveTimer # None
              /\ saveDelay > 0
              /\ The(saveTimer).currentCardIndex = state.currentCardIndex)
    /\ [][lastOp'.op = "saveProgress" =>
              /\ change.age >= SAVE_DEBOUNCE
              /\ The(saveTimer).currentCardIndex = state.currentCardIndex
              /\ saveTimer' = None
              /\ failure' = None => storage'.progress = saveTimer]_vars

\* A burst of at least two index changes has been saved, once, with the
\* index it ended on.
C18_Witness ==
    /\ lastOp.op = "saveProgress"
    /\ failure = None
    /\ change.count >= 2
    /\ storage.progress # None
    /\ The(storage.progress).currentCardIndex = state.currentCardIndex
    /\ state.currentCardIndex > 0

\* C19: unmounting while a debounced save is pending cancels it: once the
\* component is unmounted no save timer is pending and no saveProgress call
\* is made.
C19_UnmountCancelsSave ==
    (hook = UseFlashcards /\ ~mounted) =>
        saveTimer = None /\ lastOp.op # "saveProgress"

\* The component has just unmounted with a save pending.
C19_Witness ==
    /\ hook = UseFlashcards
    /\ ~mounted
    /\ lastOp = Op("unmount", 1)
    /\ storage.progress = None

\* C20: when the storage fails in saveProgress, loadProgress,
\* saveDeckStatistics, loadDeckStatistics or markDeckCompleted, the caller
\* goes on as after a call that returned, and the index, the flip, the answer
\* counters and isComplete are what they were; isComplete changes only by the
\* setState with which completeSession ends after markDeckCompleted, as it
\* does when the call succeeds.  The storage is left as it was.
C20_StorageFailureKeepsSession ==
    [][failure' # None =>
          /\ state'.currentCardIndex = state.currentCardIndex
          /\ state'.isFlipped = state.isFlipped
          /\ session' = session
          /\ \/ state'.isComplete = state.isComplete
             \/ The(failure') = "markDeckCompleted" /\ state'.isComplete
          /\ storage' = storage
          /\ The(failure') = "saveProgress" => saveTimer' = None
          /\ The(failure') = "loadProgress" =>
                 loadPc' = "done" /\ (mounted => ~isLoading')
          /\ The(failure') = "loadDeckStatistics" =>
                 \E i \in DOMAIN tasks' : tasks'[i].pc = "saveDeckStatistics"
          /\ The(failure') = "saveDeckStatistics" =>
                 \E i \in DOMAIN tasks' : tasks'[i].pc = "markDeckCompleted"
          /\ The(failure') = "markDeckCompleted" =>
                 /\ Len(tasks') = Len(tasks) - 1
                 /\ mounted => state'.isComplete]_vars

\* loadProgress has failed with a progress in the storage, and the session
\* is still at the index it had.
C20_Witness ==
    /\ failure = Some("loadProgress")
    /\ mounted
    /\ storage.progress # None
    /\ The(storage.progress).currentCardIndex < len
    /\ state.currentCardIndex = 0
    /\ ~isLoading


\* C24: in useFlashcardGestures a drag whose start came less than
\* RAPID_GESTURE_COOLDOWN after the previous gesture start is dropped: its
\* end calls neither onSwipeLeft nor onSwipeRight.
C24_RapidPanDropped ==
    [][(lastEvent'.ev = "panEnd" /\ view = GesturesView /\ dragStart = "dropped")
          => lastEvent'.intent = "none"]_vars


\* C28: when nextCard or previousCard of useFlashcardState is called several
\* times before the hook renders again, currentCardIndex still stays between
\* 0 and cards.length.
C28_BatchedIndexInRange ==
    hook = UseFlashcardState =>
        (0 <= state.currentCardIndex /\ state.currentCardIndex <= len)


\* C29: in useFlashcards, in every study mode and on every deck of at least
\* one card, calling nextCard again and again eventually reaches Complete.
C29_AdvanceReachesComplete == <>(state.isComplete)


\* timesCompleted and averageScore of stored statistics, 0 when none is stored.
TimesCompleted(stats) == IF stats = None THEN 0 ELSE The(stats).timesCompleted
AverageScore(stats) == IF stats = None THEN 0 ELSE The(stats).averageScore

\* C21: when the session reaches Complete, the stored statistics have
\* timesCompleted = the timesCompleted stored before + 1 (1 when none was
\* stored) and averageScore = round((previous average * previous count +
\* session score) / new count), the score being that of a completeSession
\* call of the session.
C21_StatisticsMerged ==
    [][(hook = UseFlashcards /\ ~state.isComplete /\ state'.isComplete) =>
          /\ storage'.statistics # None
          /\ TimesCompleted(storage'.statistics)
                 = TimesCompleted(completion.before) + 1
          /\ \E i \in DOMAIN tasks :
                 AverageScore(storage'.statistics)
                    = MathRound(AverageScore(completion.before)
                                   * TimesCompleted(completion.before)
                                + tasks[i].score,
                                TimesCompleted(completion.before) + 1)]_vars

\* C22: resetDeck after a completed session, with the resetDeckProgress it
\* awaits, leaves the stored statistics of the deck as they were.
C22_ResetKeepsStatistics ==
    [][(lastOp'.op = "resetDeck" \/ (resetPending /\ ~resetPending')) =>
          storage'.statistics = storage.statistics]_vars

\* A session was completed and then reset: the stored progress and the
\* completed mark are gone, the statistics of the completion are still there.
C22_Witness ==
    /\ completion.calls >= 1
    /\ state = InitialState
    /\ session = InitialSession
    /\ ~resetPending
    /\ tasks = <<>>
    /\ ~storage.completed
    /\ storage.statistics # None
    /\ TimesCompleted(storage.statistics) = TimesCompleted(completion.before) + 1

\* C23: loading the saved progress of a deck into a fresh session, nothing
\* having changed in between, gives back the saved index and the saved
\* answer counters.
C23_ProgressRoundTrip ==
    [][(/\ loadPc = "loadProgress"
        /\ loadPc' = "done"
        /\ mounted
        /\ failure' = None
        /\ state = InitialState
        /\ session = InitialSession
        /\ storage.progress # None) =>
          /\ state'.currentCardIndex = The(storage.progress).currentCardIndex
          /\ session'.correctAnswers = The(storage.progress).correctAnswers
          /\ session'.totalAnswers = The(storage.progress).totalAnswers]_vars

\* C27: each time the session reaches the end of the deck, onComplete is
\* called once and the stored timesCompleted goes up by one, whatever happens
\* while the completion is being processed.
C27_CompletesOnce ==
    hook = UseFlashcards =>
        /\ completion.calls <= 1
        /\ TimesCompleted(storage.statistics)
               <= TimesCompleted(completion.before) + 1


\* C25: the function useThrottle returns runs the callback at once on its
\* first call, and whatever the timing of the calls the callback never runs
\* twice less than the delay apart.
C25_ThrottleSpacing ==
    /\ [][throttle = InitialThrottle /\ throttle'.ev # "tick" =>
              throttle'.ev = "run"]_vars
    /\ [][throttle'.ev = "run" => throttle.sinceRun >= THROTTLE_DELAY]_vars

\* C30: while isSystemTheme is true a change of the system colour scheme
\* (to light or dark) sets the theme to it; while it is false a system
\* change leaves the theme as it is.
C30_ThemeFollowsSystem ==
    [][themeCtx'.ev = "systemChange" /\ themeCtx'.scheme # themeCtx.scheme =>
          IF themeCtx.isSystemTheme /\ themeCtx'.scheme # "null"
          THEN themeCtx'.theme = ThemeOf(themeCtx'.scheme)
          ELSE themeCtx'.theme = themeCtx.theme]_vars


\* C26: on the mounted screen, a left swipe on the last card that passes the
\* cooldown and animation guard is eventually followed by the Complete
\* session (or by the screen being left).
C26_LastCardSwipeCompletes ==
    (/\ mounted
     /\ lastEvent.ev = "panEnd"
     /\ lastEvent.intent = "left"
     /\ lastSwipeAge = 0
     /\ ~isAnimating
     /\ rendered.currentCardIndex = len - 1) ~> (state.isComplete \/ ~mounted)

====
